---- MODULE Spec2Model ----
(***************************************************************************)
(* A model of the query client of src/src/data-fetching.ts (class          *)
(* QueryClient): the keyed cache, fetchQuery with executeWithRetry,        *)
(* subscribeToQuery and its unsubscribe closure, the GC and refetch        *)
(* interval timers, invalidateQueries, setQueryData, getQueryData,         *)
(* removeQueries and clear.                                                *)
(*                                                                         *)
(* JavaScript objects are heap cells: entries, fetchQuery calls, observers *)
(* and timers live in sequences and are referred to by their index, so a   *)
(* closure that captured an entry keeps referring to that entry after the  *)
(* store has dropped or replaced it.  Every action is one synchronous turn *)
(* of the event loop: a consumer call, the settling of a queryFn promise   *)
(* together with the continuation that awaits it, or a timer callback.     *)
(***************************************************************************)
EXTENDS Integers, Sequences, FiniteSets, TLC

VARIABLES
    cache,      \* the LRUCache: serialized key -> entry id, NoEntry when absent
    lru,        \* serialized keys in the store, least recently used first
    expired,    \* serialized keys whose ttl has elapsed (stale for the LRUCache)
    entries,    \* heap of QueryCacheEntry objects
    fetches,    \* fetchQuery calls: one record per call, with its AbortController
    observers,  \* QueryObserver objects with the entry their closure captured
    timers,     \* setTimeout / setInterval handles
    deferred,   \* callbacks handed to defer() and not run yet
    called,     \* callbacks that have run
    now,        \* Date.now()
    gcEvicted,  \* serialized keys a GC timer removed and no consumer has asked for since
    cfg,        \* the scenario: key and option pools, cache.maxSize, queryFn behaviour
    mutations,  \* executeMutation calls of one useMutation hook, one record per call
    mstate,     \* the MutationState the hook holds
    mounted,    \* isMountedRef.current of the hook
    isPending,  \* the batching module's flag: a microtask that drains the queue is scheduled
    ambient     \* the request context current in AsyncLocalStorage

vars == <<cache, lru, expired, entries, fetches, observers, timers, deferred, called,
          now, gcEvicted, cfg, mutations, mstate, mounted, isPending, ambient>>

mvars == <<mutations, mstate, mounted>>

(***************************************************************************)
(* Bounds of the model.                                                    *)
(***************************************************************************)
MaxFetches == 2
MaxObservers == 1
MaxEntries == 1
MaxRetryN == 2
RetryMaxFetches == 1
CallbackMaxFetches == 2
CallbackMaxObservers == 1
ObserverMaxFetches == 2
ObserverMaxObservers == 2
IntervalMaxFetches == 3
InvalidateMaxFetches == 1
InvalidateMaxObservers == 1
InvalidateMaxEntries == 2
IntervalMaxEntries == 2
SetDataMaxFetches == 1
SetDataMaxEntries == 2
SetDataMaxSize == 1
MaxTicks == 3
MaxMutations == 2
RetryMaxMutations == 1
MaxBackoffRetry == 6
KeysMaxCells == 3
ProjMaxFetches == 1
ProjMaxObservers == 1
DeferMaxFetches == 2
RefetchMaxFetches == 2
RefetchMaxObservers == 1
OnMutateMaxMutations == 2
StaleMaxFetches == 1
StaleMaxObservers == 2

(***************************************************************************)
(* Program constants.                                                      *)
(***************************************************************************)
DefaultMaxSize == 1000
DefaultGcTime == 300000
DefaultRetry == 3
BooleanRetryLimit == 3

NoEntry == 0
NoTimer == 0
NoController == 0
Undef == -1         \* an option that was not given

(***************************************************************************)
(* Query keys.  A key is a string or an array; NoKey is an omitted         *)
(* argument.                                                               *)
(***************************************************************************)
\* ref is the identity of the key object the caller passes.
ArrayKey(parts) == [kind |-> "array", parts |-> parts, ref |-> "a"]
StringKey(s) == [kind |-> "string", parts |-> <<s>>, ref |-> "a"]
NoKey == [kind |-> "none", parts |-> <<>>, ref |-> "a"]

KPosts == ArrayKey(<<"posts">>)
KPostsList == ArrayKey(<<"posts", "list">>)
KEmpty == StringKey("")
\* A second array object with the contents of KPosts, and the string "posts".
KPostsCopy == [KPosts EXCEPT !.ref = "b"]
KPostsString == StringKey("posts")

AllKeys == {KPosts, KPostsList, KEmpty, KPostsCopy, KPostsString}

\* JavaScript truthiness of a key argument: "" and undefined are falsy.
Truthy(k) ==
    \/ k.kind = "array"
    \/ k.kind = "string" /\ k.parts[1] # ""

RECURSIVE JoinQuoted(_)
JoinQuoted(parts) ==
    IF parts = <<>> THEN <<>>
    ELSE IF Len(parts) = 1 THEN <<"\"", parts[1], "\"">>
    ELSE <<"\"", parts[1], "\"", ",">> \o JoinQuoted(Tail(parts))

\* A serialization that tells two key objects apart.
getQueryKeyByIdentity(k) ==
    IF k.kind = "array" THEN <<k.ref, "[">> \o JoinQuoted(k.parts) \o <<"]">>
    ELSE <<k.ref>> \o JoinQuoted(k.parts)

\* JSON.stringify(queryKey), as a sequence of tokens.
getQueryKey(k) ==
    IF k.kind = "array" THEN <<"[">> \o JoinQuoted(k.parts) \o <<"]">>
    ELSE JoinQuoted(k.parts)

SerKeys == {getQueryKey(k) : k \in AllKeys}

(***************************************************************************)
(* Data and errors.  A queryFn result carries the id of the fetchQuery     *)
(* call whose queryFn produced it, so that results of different calls are  *)
(* different values.                                                       *)
(***************************************************************************)
Undefined == [src |-> "undefined", id |-> 0]
FetchData(f) == [src |-> "fetch", id |-> f]
SetData(x) == [src |-> "set", id |-> x]
\* What the select function of the model returns for d.
Selected(d) == [src |-> "select", id |-> d.id, of |-> d.src]
SetValues == {1}

Null == [name |-> "null", id |-> 0]
ErrorOf(name, f) == [name |-> name, id |-> f]
ErrorNames == {"Error", "AbortError"}

(***************************************************************************)
(* Query options.  retry is a record: omitted, a boolean or a number.      *)
(***************************************************************************)
RetryOmitted == [kind |-> "omitted", n |-> 0]
RetryBool(b) == [kind |-> "boolean", n |-> IF b THEN 1 ELSE 0]
RetryNum(n) == [kind |-> "number", n |-> n]

\* retryDelay is omitted, a number, or a function of the attempt; the
\* function of the model returns n * (attempt + 1).
RetryDelayOmitted == [kind |-> "omitted", n |-> 0]
RetryDelayNum(n) == [kind |-> "number", n |-> n]
RetryDelayFn(n) == [kind |-> "function", n |-> n]

BaseOptions(k) ==
    [queryKey |-> k, enabled |-> TRUE, retry |-> RetryNum(0),
     retryDelay |-> RetryDelayOmitted, gcTime |-> Undef,
     refetchInterval |-> 0, staleTime |-> Undef, select |-> FALSE,
     onSuccess |-> FALSE, onError |-> FALSE, onSettled |-> FALSE, throwing |-> {}]

(***************************************************************************)
(* The initial state object of a new entry.                                *)
(***************************************************************************)
InitialState ==
    [data |-> Undefined, dataUpdatedAt |-> 0, error |-> Null, errorUpdatedAt |-> 0,
     failureCount |-> 0, failureReason |-> Null, fetchStatus |-> "idle",
     isInvalidated |-> FALSE, status |-> "pending"]

NewEntry ==
    [state |-> InitialState, observers |-> {}, abortController |-> NoController,
     gcTimeout |-> NoTimer, refetchInterval |-> NoTimer]

(***************************************************************************)
(* The world: the heap and the store, threaded through the handlers.       *)
(***************************************************************************)
\* An observer's n counts the calls of its callback by the running handler.
\* The sequence <<fn[1], ..., fn[n]>>, built element by element.
RECURSIVE SeqFrom(_, _)
SeqFrom(fn, n) == IF n = 0 THEN <<>> ELSE Append(SeqFrom(fn, n - 1), fn[n])

Cur ==
    [cache |-> cache, lru |-> lru, expired |-> expired, entries |-> entries,
     fetches |-> fetches,
     observers |-> SeqFrom([o \in DOMAIN observers |-> [observers[o] EXCEPT !.n = 0]],
                           Len(observers)),
     timers |-> timers, deferred |-> deferred, called |-> called,
     isPending |-> isPending, ambient |-> ambient]

Commit(w) ==
    /\ cache' = w.cache
    /\ lru' = w.lru
    /\ expired' = w.expired
    /\ entries' = w.entries
    /\ fetches' = w.fetches
    /\ observers' = w.observers
    /\ timers' = w.timers
    /\ deferred' = w.deferred
    /\ called' = w.called
    /\ isPending' = w.isPending

RECURSIVE Without(_, _)
Without(seq, x) ==
    IF seq = <<>> THEN <<>>
    ELSE IF Head(seq) = x THEN Without(Tail(seq), x)
    ELSE <<Head(seq)>> \o Without(Tail(seq), x)

(***************************************************************************)
(* AbortController.abort(), clearTimeout and clearInterval.                *)
(***************************************************************************)
AbortNoop(w, c) == w

Abort(w, c) ==
    IF c = NoController THEN w
    ELSE [w EXCEPT !.fetches[c].aborted = TRUE]

ClearTimer(w, t) ==
    IF t = NoTimer THEN w
    ELSE [w EXCEPT !.timers[t].armed = FALSE]

cleanupQuery(w, e) ==
    LET w1 == Abort(w, w.entries[e].abortController)
        w2 == ClearTimer(w1, w.entries[e].gcTimeout)
    IN  ClearTimer(w2, w.entries[e].refetchInterval)

(***************************************************************************)
(* The LRUCache configured by the constructor: max entries, ttl, and       *)
(* dispose = cleanupQuery on every removal.                                *)
(***************************************************************************)
CacheDelete(w, s) ==
    IF w.cache[s] = NoEntry THEN w
    ELSE LET w1 == cleanupQuery(w, w.cache[s])
         IN  [w1 EXCEPT !.cache[s] = NoEntry,
                        !.lru = Without(w.lru, s),
                        !.expired = w.expired \ {s}]

\* cache.get(key): a stale entry is deleted and undefined is returned; a hit
\* becomes the most recently used.
CacheGet(w, s) ==
    IF w.cache[s] = NoEntry THEN [w |-> w, val |-> NoEntry]
    ELSE IF s \in w.expired THEN [w |-> CacheDelete(w, s), val |-> NoEntry]
    ELSE [w |-> [w EXCEPT !.lru = Append(Without(w.lru, s), s)], val |-> w.cache[s]]

\* cache.set(key, entry) for a key that is not in the store: at capacity the
\* least recently used entry is evicted first.
CacheSet(w, s, e) ==
    LET w1 == IF Len(w.lru) >= cfg.maxSize THEN CacheDelete(w, Head(w.lru)) ELSE w
    IN  [w1 EXCEPT !.cache[s] = e, !.lru = Append(w1.lru, s)]

RECURSIVE CacheClearFrom(_, _)
CacheClearFrom(w, order) ==
    IF order = <<>> THEN w
    ELSE CacheClearFrom(CacheDelete(w, Head(order)), Tail(order))

CacheClear(w) == CacheClearFrom(w, w.lru)

\* cache.values(): the entries that are not stale.
CacheValues(w) == {w.cache[s] : s \in {x \in SerKeys : w.cache[x] # NoEntry /\ x \notin w.expired}}

\* Whether getQueryEntry can run: a new entry needs a free heap cell.
CanGetEntry(w, k) ==
    LET s == getQueryKey(k)
    IN  \/ w.cache[s] # NoEntry /\ s \notin w.expired
        \/ Len(w.entries) < cfg.maxEntries

getQueryEntry(w, k) ==
    LET s == getQueryKey(k)
        g == CacheGet(w, s)
    IN  IF g.val # NoEntry THEN [w |-> g.w, e |-> g.val]
        ELSE LET e == Len(g.w.entries) + 1
                 w1 == [g.w EXCEPT !.entries = Append(g.w.entries, NewEntry)]
             IN  [w |-> CacheSet(w1, s, e), e |-> e]

(***************************************************************************)
(* buildQueryResult and notifyObservers.  An observer's callback is        *)
(* modelled by what it is handed: the observer keeps the last result.      *)
(***************************************************************************)
isStaleInclusive(state, options) ==
    LET staleTime == IF options.staleTime = Undef THEN 0 ELSE options.staleTime
    IN  now - state.dataUpdatedAt >= staleTime

isStale(state, options) ==
    LET staleTime == IF options.staleTime = Undef THEN 0 ELSE options.staleTime
    IN  now - state.dataUpdatedAt > staleTime

\* A projection that hands out the raw data.
buildQueryResultRaw(state, options) ==
    LET isLoading == state.status = "pending" /\ state.fetchStatus = "fetching"
        isFetching == state.fetchStatus = "fetching"
    IN  [state |-> state,
         data |-> state.data,
         isLoading |-> isLoading,
         isPending |-> state.status = "pending",
         isSuccess |-> state.status = "success",
         isError |-> state.status = "error",
         isFetching |-> isFetching,
         isRefetching |-> isFetching /\ ~isLoading,
         isStale |-> isStale(state, options)]

buildQueryResult(state, options) ==
    LET isLoading == state.status = "pending" /\ state.fetchStatus = "fetching"
        isFetching == state.fetchStatus = "fetching"
    IN  [state |-> state,
         data |-> IF options.select /\ state.data # Undefined
                  THEN Selected(state.data) ELSE state.data,
         isLoading |-> isLoading,
         isPending |-> state.status = "pending",
         isSuccess |-> state.status = "success",
         isError |-> state.status = "error",
         isFetching |-> isFetching,
         isRefetching |-> isFetching /\ ~isLoading,
         isStale |-> isStale(state, options)]

NoResult == [none |-> TRUE]

\* The state object the refetch closure of a projection captured: the object
\* that was entry.state of the given entry, live while it still is.
NoCapture == [entry |-> NoEntry, state |-> InitialState, live |-> FALSE]

\* entry.state = {...}: the entry gets a new state object, and a closure that
\* captured the previous one keeps that.
stateReplaced(w, e) ==
    [w EXCEPT !.fetches =
        SeqFrom([f \in DOMAIN w.fetches |->
                    IF w.fetches[f].captured.entry = e
                    THEN [w.fetches[f] EXCEPT !.captured.live = FALSE]
                    ELSE w.fetches[f]], Len(w.fetches))]

\* entry.state.x = v: a write into the state object, seen by a closure that
\* captured it.
stateWritten(w, e) ==
    [w EXCEPT !.fetches =
        SeqFrom([f \in DOMAIN w.fetches |->
                    IF w.fetches[f].captured.entry = e /\ w.fetches[f].captured.live
                    THEN [w.fetches[f] EXCEPT !.captured.state = w.entries[e].state]
                    ELSE w.fetches[f]], Len(w.fetches))]

notifyObservers(w, e) ==
    [w EXCEPT !.observers =
        SeqFrom([o \in DOMAIN w.observers |->
                    IF o \in w.entries[e].observers
                    THEN [w.observers[o] EXCEPT
                            !.last = buildQueryResult(w.entries[e].state,
                                                      w.observers[o].options),
                            !.n = @ + 1]
                    ELSE w.observers[o]], Len(w.observers))]

(***************************************************************************)
(* defer(fn): the callback is added to the queue that the next microtask   *)
(* drains.                                                                 *)
(***************************************************************************)
\* A callback handed to defer: snapshot is the context AsyncLocalStorage
\* .snapshot() captured, at the context current when the queue is drained,
\* ctx the context the callback runs under and run the number of the
\* invocation (1 for the first).
RootContext == "root"

Callback(cb, f) ==
    [cb |-> cb, fid |-> f, snapshot |-> RootContext, at |-> RootContext,
     ctx |-> RootContext, run |-> 1]

deferSync(w, has, c) == IF has THEN [w EXCEPT !.called = @ \cup {c}] ELSE w

defer(w, has, c) ==
    IF has
    THEN [w EXCEPT !.deferred = Append(@, [c EXCEPT !.snapshot = w.ambient]),
                   !.isPending = TRUE]
    ELSE w

(***************************************************************************)
(* Timers.                                                                 *)
(***************************************************************************)
NewTimer(kind, e, o) == [kind |-> kind, entry |-> e, options |-> o, armed |-> TRUE]

gcTimeOf(o) == IF o.gcTime = Undef THEN DefaultGcTime ELSE o.gcTime

(***************************************************************************)
(* fetchQuery up to its first await: the entry is fetched or created, the  *)
(* controller in flight is aborted, a new one installed, observers are     *)
(* notified and executeWithRetry calls queryFn for the first time.         *)
(***************************************************************************)
NewFetch(e, o, origin) ==
    [entry |-> e, options |-> o, origin |-> origin, pc |-> "awaitFn", attempt |-> 0,
     aborted |-> FALSE, calls |-> 1, outcome |-> "none", value |-> Undefined,
     error |-> Null, delay |-> Undef, captured |-> NoCapture, result |-> NoResult]

CanFetch(w, o) == Len(w.fetches) < cfg.maxFetches /\ CanGetEntry(w, o.queryKey)

fetchQueryStart(w, o, origin) ==
    LET g == getQueryEntry(w, o.queryKey)
        e == g.e
        w1 == Abort(g.w, g.w.entries[e].abortController)
        f == Len(w1.fetches) + 1
        w2 == [w1 EXCEPT !.fetches = Append(@, NewFetch(e, o, origin)),
                         !.entries[e].abortController = f,
                         !.entries[e].state.fetchStatus = "fetching"]
    IN  notifyObservers(stateWritten(w2, e), e)

\* finally { if (options.onSettled) defer(...) }
fetchQueryFinally(w, f) ==
    defer(w, w.fetches[f].options.onSettled, Callback("onSettled", f))

\* refetch: async () => { await this.fetchQuery(options); return
\* this.buildQueryResult(state, options) } with the state object it captured.
refetchReturn(w, f) ==
    IF w.fetches[f].origin = "refetch"
    THEN [w EXCEPT !.fetches[f].result =
             buildQueryResult(w.fetches[f].captured.state, w.fetches[f].options)]
    ELSE w

\* A success that leaves fetchStatus as it is.
fetchQuerySuccessKeepFetching(w, f, data) ==
    LET e == w.fetches[f].entry
        o == w.fetches[f].options
        w1 == [w EXCEPT !.entries[e].state =
                  [@ EXCEPT !.data = data, !.dataUpdatedAt = now, !.error = Null,
                            !.errorUpdatedAt = 0, !.failureCount = 0,
                            !.failureReason = Null,
                            !.status = "success"]]
        w2 == IF o.refetchInterval > 0
              THEN [w1 EXCEPT !.timers = Append(@, NewTimer("interval", e, o)),
                              !.entries[e].refetchInterval = Len(w1.timers) + 1]
              ELSE w1
        w3 == IF gcTimeOf(o) > 0
              THEN [w2 EXCEPT !.timers = Append(@, NewTimer("gcFetch", e, o)),
                              !.entries[e].gcTimeout = Len(w2.timers) + 1]
              ELSE w2
        w4 == notifyObservers(stateReplaced(w3, e), e)
        w5 == defer(w4, o.onSuccess, Callback("onSuccess", f))
        w6 == [w5 EXCEPT !.fetches[f].pc = "done", !.fetches[f].outcome = "resolved",
                         !.fetches[f].value = data]
    IN  refetchReturn(fetchQueryFinally(w6, f), f)

\* The continuation of fetchQuery after executeWithRetry returned data.
fetchQuerySuccess(w, f, data) ==
    LET e == w.fetches[f].entry
        o == w.fetches[f].options
        w1 == [w EXCEPT !.entries[e].state =
                  [@ EXCEPT !.data = data, !.dataUpdatedAt = now, !.error = Null,
                            !.errorUpdatedAt = 0, !.failureCount = 0,
                            !.failureReason = Null, !.fetchStatus = "idle",
                            !.status = "success"]]
        w2 == IF o.refetchInterval > 0
              THEN [w1 EXCEPT !.timers = Append(@, NewTimer("interval", e, o)),
                              !.entries[e].refetchInterval = Len(w1.timers) + 1]
              ELSE w1
        w3 == IF gcTimeOf(o) > 0
              THEN [w2 EXCEPT !.timers = Append(@, NewTimer("gcFetch", e, o)),
                              !.entries[e].gcTimeout = Len(w2.timers) + 1]
              ELSE w2
        w4 == notifyObservers(stateReplaced(w3, e), e)
        w5 == defer(w4, o.onSuccess, Callback("onSuccess", f))
        w6 == [w5 EXCEPT !.fetches[f].pc = "done", !.fetches[f].outcome = "resolved",
                         !.fetches[f].value = data]
    IN  refetchReturn(fetchQueryFinally(w6, f), f)

\* The catch block of fetchQuery, were the failure to reset isInvalidated.
fetchQueryCatchResetInvalidated(w, f, err) ==
    LET e == w.fetches[f].entry
        o == w.fetches[f].options
    IN  IF err.name = "AbortError"
        THEN refetchReturn(fetchQueryFinally(
                [w EXCEPT !.fetches[f].pc = "done", !.fetches[f].outcome = "resolved",
                          !.fetches[f].value = w.entries[e].state.data], f), f)
        ELSE LET w1 == [w EXCEPT !.entries[e].state =
                          [@ EXCEPT !.error = err, !.errorUpdatedAt = now,
                                    !.failureCount = @ + 1, !.failureReason = err,
                                    !.fetchStatus = "idle", !.status = "error",
                                    !.isInvalidated = FALSE]]
                 w2 == notifyObservers(stateReplaced(w1, e), e)
                 w3 == defer(w2, o.onError, Callback("onError", f))
                 w4 == [w3 EXCEPT !.fetches[f].pc = "done",
                                  !.fetches[f].outcome = "rejected",
                                  !.fetches[f].error = err]
             IN  fetchQueryFinally(w4, f)

\* The catch block of fetchQuery.
fetchQueryCatch(w, f, err) ==
    LET e == w.fetches[f].entry
        o == w.fetches[f].options
    IN  IF err.name = "AbortError"
        THEN refetchReturn(fetchQueryFinally(
                [w EXCEPT !.fetches[f].pc = "done", !.fetches[f].outcome = "resolved",
                          !.fetches[f].value = w.entries[e].state.data], f), f)
        ELSE LET w1 == [w EXCEPT !.entries[e].state =
                          [@ EXCEPT !.error = err, !.errorUpdatedAt = now,
                                    !.failureCount = @ + 1, !.failureReason = err,
                                    !.fetchStatus = "idle", !.status = "error"]]
                 w2 == notifyObservers(stateReplaced(w1, e), e)
                 w3 == defer(w2, o.onError, Callback("onError", f))
                 w4 == [w3 EXCEPT !.fetches[f].pc = "done",
                                  !.fetches[f].outcome = "rejected",
                                  !.fetches[f].error = err]
             IN  fetchQueryFinally(w4, f)

(***************************************************************************)
(* executeWithRetry.                                                       *)
(***************************************************************************)
shouldRetryOffByOne(retry, attempt) ==
    IF retry.kind = "boolean" THEN retry.n = 1 /\ attempt <= BooleanRetryLimit
    ELSE IF retry.kind = "omitted" THEN attempt <= DefaultRetry
    ELSE attempt <= retry.n

shouldRetry(retry, attempt) ==
    IF retry.kind = "boolean" THEN retry.n = 1 /\ attempt < BooleanRetryLimit
    ELSE IF retry.kind = "omitted" THEN attempt < DefaultRetry
    ELSE attempt < retry.n

\* The delay without the cap.
retryDelayUncapped(rd, attempt) ==
    IF rd.kind = "function" THEN rd.n * (attempt + 1)
    ELSE IF rd.kind = "number" THEN rd.n
    ELSE 1000 * 2 ^ attempt

\* The delay before the next call: retryDelay(attempt, error), retryDelay, or
\* Math.min(1000 * Math.pow(2, attempt), 30000).
retryDelayOf(rd, attempt) ==
    IF rd.kind = "function" THEN rd.n * (attempt + 1)
    ELSE IF rd.kind = "number" THEN rd.n
    ELSE IF 1000 * 2 ^ attempt < 30000 THEN 1000 * 2 ^ attempt ELSE 30000

\* The catch block of the retry loop, entered when queryFn has rejected.
executeWithRetryCatch(w, f, err) ==
    IF w.fetches[f].aborted THEN fetchQueryCatch(w, f, err)
    ELSE IF ~shouldRetry(w.fetches[f].options.retry, w.fetches[f].attempt)
    THEN fetchQueryCatch(w, f, err)
    ELSE [w EXCEPT !.fetches[f].pc = "backoff",
                   !.fetches[f].delay =
                       retryDelayOf(w.fetches[f].options.retryDelay, w.fetches[f].attempt)]

\* The delay has elapsed: attempt++ and the loop calls queryFn again.
executeWithRetryResume(w, f) ==
    [w EXCEPT !.fetches[f].pc = "awaitFn", !.fetches[f].attempt = @ + 1,
              !.fetches[f].calls = @ + 1]

(***************************************************************************)
(* subscribeToQuery and the unsubscribe closure it returns.                *)
(***************************************************************************)
NewObserver(o, e) ==
    [options |-> o, entry |-> e, active |-> TRUE, last |-> NoResult, n |-> 0]

subscribeToQuery(w, o) ==
    LET g == getQueryEntry(w, o.queryKey)
        e == g.e
        ob == Len(g.w.observers) + 1
        w1 == [g.w EXCEPT !.observers = Append(@, NewObserver(o, e)),
                          !.entries[e].observers = @ \cup {ob}]
        w2 == IF w1.entries[e].gcTimeout # NoTimer
              THEN [ClearTimer(w1, w1.entries[e].gcTimeout) EXCEPT
                        !.entries[e].gcTimeout = NoTimer]
              ELSE w1
    IN  IF o.enabled /\ w2.entries[e].state.status = "pending"
        THEN fetchQueryStart(w2, o, "subscribe")
        ELSE w2

\* Whether subscribeToQuery(o) will call fetchQuery.
SubscribeFetches(w, o) ==
    LET s == getQueryKey(o.queryKey)
    IN  /\ o.enabled
        /\ \/ w.cache[s] = NoEntry
           \/ s \in w.expired
           \/ w.entries[w.cache[s]].state.status = "pending"

unsubscribe(w, ob) ==
    LET e == w.observers[ob].entry
        o == w.observers[ob].options
        w1 == [w EXCEPT !.observers[ob].active = FALSE,
                        !.entries[e].observers = @ \ {ob}]
    IN  IF w1.entries[e].observers = {} /\ gcTimeOf(o) > 0
        THEN [w1 EXCEPT !.timers = Append(@, NewTimer("gcUnsub", e, o)),
                        !.entries[e].gcTimeout = Len(w1.timers) + 1]
        ELSE w1

\* result.refetch() of the projection observer ob holds: fetchQuery(options)
\* starts, and the closure keeps the state object the projection was built
\* from, which is the state object of the observer's entry.
refetch(w, ob) ==
    LET e == w.observers[ob].entry
        w1 == fetchQueryStart(w, w.observers[ob].options, "refetch")
    IN  [w1 EXCEPT !.fetches[Len(w1.fetches)].captured =
            [entry |-> e, state |-> w1.entries[e].state, live |-> TRUE]]

(***************************************************************************)
(* The timer callbacks.                                                    *)
(***************************************************************************)
\* setTimeout callback armed by fetchQuery after a success.
gcFetchCallback(w, t) ==
    LET w1 == [w EXCEPT !.timers[t].armed = FALSE]
    IN  IF w1.entries[w1.timers[t].entry].observers = {}
        THEN CacheDelete(w1, getQueryKey(w1.timers[t].options.queryKey))
        ELSE w1

\* setTimeout callback armed by the unsubscribe closure.
gcUnsubCallback(w, t) ==
    CacheDelete([w EXCEPT !.timers[t].armed = FALSE],
                getQueryKey(w.timers[t].options.queryKey))

\* setInterval callback armed by fetchQuery after a success.
intervalCallback(w, t) == fetchQueryStart(w, w.timers[t].options, "interval")

(***************************************************************************)
(* invalidateQueries, setQueryData, getQueryData, removeQueries, clear.    *)
(***************************************************************************)
InvalidateAndReset(state) == [state EXCEPT !.isInvalidated = TRUE, !.status = "pending"]

Invalidate(state) == [state EXCEPT !.isInvalidated = TRUE]

invalidateEntry(w, e) ==
    notifyObservers(stateWritten([w EXCEPT !.entries[e].state = Invalidate(@)], e), e)

RECURSIVE invalidateAll(_, _)
invalidateAll(w, es) ==
    IF es = {} THEN w
    ELSE LET e == CHOOSE x \in es : TRUE
         IN  invalidateAll(invalidateEntry(w, e), es \ {e})

invalidateQueries(w, k) ==
    IF Truthy(k)
    THEN LET g == CacheGet(w, getQueryKey(k))
         IN  IF g.val # NoEntry THEN invalidateEntry(g.w, g.val) ELSE g.w
    ELSE invalidateAll(w, CacheValues(w))

setQueryDataKeepStatus(w, k, data) ==
    LET g == getQueryEntry(w, k)
        w1 == [g.w EXCEPT !.entries[g.e].state =
                  [@ EXCEPT !.data = data, !.dataUpdatedAt = now]]
    IN  notifyObservers(stateReplaced(w1, g.e), g.e)

setQueryData(w, k, data) ==
    LET g == getQueryEntry(w, k)
        w1 == [g.w EXCEPT !.entries[g.e].state =
                  [@ EXCEPT !.data = data, !.dataUpdatedAt = now, !.status = "success"]]
    IN  notifyObservers(stateReplaced(w1, g.e), g.e)

\* The value getQueryData returns.
getQueryDataValue(w, k) ==
    LET g == CacheGet(w, getQueryKey(k))
    IN  IF g.val = NoEntry THEN Undefined ELSE g.w.entries[g.val].state.data

removeQueries(w, k) ==
    IF Truthy(k)
    THEN LET s == getQueryKey(k)
             g == CacheGet(w, s)
         IN  IF g.val # NoEntry THEN CacheDelete(cleanupQuery(g.w, g.val), s) ELSE g.w
    ELSE CacheClear(w)

(***************************************************************************)
(* useMutation: the state of the hook and executeMutation.  A call is a    *)
(* record; its position pc is "onMutate" while it awaits onMutate,         *)
(* "awaitFn" while it awaits mutationFn, "backoff" in the retry delay and  *)
(* "done" once its promise has settled.  The closure it hands to defer     *)
(* runs the handlers in todo one after the other, awaiting each.           *)
(***************************************************************************)
InitialMutationState ==
    [data |-> Undefined, error |-> Null, failureCount |-> 0, failureReason |-> Null,
     isError |-> FALSE, isIdle |-> TRUE, isPending |-> FALSE, isSuccess |-> FALSE,
     status |-> "idle", variables |-> 0, submittedAt |-> 0, context |-> Undefined]

MutationData(m) == [src |-> "mutation", id |-> m]
ContextOf(m) == [src |-> "context", id |-> m]

\* Options of the hook: what onMutate does ("none" when it is not given),
\* retry, the handlers given, and the handlers that throw when called.
MutationOptions(onMutate, retry, handlers, throwing) ==
    [onMutate |-> onMutate, retry |-> retry, retryDelay |-> RetryDelayOmitted,
     handlers |-> handlers, throwing |-> throwing]

NewMutation(kind, v, co, mo) ==
    [kind |-> kind, variables |-> v, options |-> co, mutateOptions |-> mo,
     pc |-> "start", attempt |-> 0, calls |-> 0, onMutateCalls |-> 0,
     context |-> Undefined, outcome |-> "none", value |-> Undefined, error |-> Null,
     caught |-> FALSE, hpc |-> "none", todo |-> <<>>, ran |-> <<>>, delay |-> Undef]

\* The world of the hook, threaded through executeMutation.
MCur ==
    [mutations |-> mutations, mstate |-> mstate, deferred |-> deferred,
     isPending |-> isPending, ambient |-> ambient]

\* retry ?? false
mutationRetryAsQuery(co) == co.retry

mutationRetry(co) == IF co.retry = RetryOmitted THEN RetryBool(FALSE) ELSE co.retry

\* setState to pending, then executeWithRetry calls mutationFn.
executeMutationProceed(w, m, ctx) ==
    [w EXCEPT !.mutations[m].context = ctx,
              !.mutations[m].pc = "awaitFn",
              !.mutations[m].calls = 1,
              !.mstate = [@ EXCEPT !.isPending = TRUE, !.isIdle = FALSE,
                                   !.status = "pending",
                                   !.variables = w.mutations[m].variables,
                                   !.submittedAt = now, !.context = ctx]]

\* One call serves every call that is pending: a later call starts nothing.
executeMutationDeduplicated(w, kind, v, co, mo) ==
    LET m == Len(w.mutations) + 1
        w1 == [w EXCEPT !.mutations = Append(@, NewMutation(kind, v, co, mo))]
    IN  IF \E m2 \in DOMAIN w.mutations : w.mutations[m2].pc \in {"awaitFn", "backoff"}
        THEN [w1 EXCEPT !.mutations[m].pc = "done", !.mutations[m].outcome = "resolved"]
        ELSE executeMutationProceed(w1, m, Undefined)

\* executeMutation up to its first await.
executeMutation(w, kind, v, co, mo) ==
    LET m == Len(w.mutations) + 1
        w1 == [w EXCEPT !.mutations = Append(@, NewMutation(kind, v, co, mo))]
    IN  IF ~mounted
        THEN [w1 EXCEPT !.mutations[m].pc = "done", !.mutations[m].outcome = "rejected",
                        !.mutations[m].error = ErrorOf("Unmounted", m)]
        ELSE IF co.onMutate = "none" THEN executeMutationProceed(w1, m, Undefined)
        ELSE IF co.onMutate = "throws"
        THEN [w1 EXCEPT !.mutations[m].onMutateCalls = 1,
                        !.mutations[m].pc = "done", !.mutations[m].outcome = "rejected",
                        !.mutations[m].error = ErrorOf("OnMutateError", m)]
        ELSE [w1 EXCEPT !.mutations[m].onMutateCalls = 1, !.mutations[m].pc = "onMutate"]

\* A failure of onMutate that is ignored.
executeMutationOnMutateIgnored(w, m) == executeMutationProceed(w, m, Undefined)

\* The promise onMutate returned settles.
executeMutationOnMutateSettled(w, m) ==
    IF w.mutations[m].options.onMutate = "rejects"
    THEN [w EXCEPT !.mutations[m].pc = "done", !.mutations[m].outcome = "rejected",
                   !.mutations[m].error = ErrorOf("OnMutateError", m)]
    ELSE executeMutationProceed(w, m, ContextOf(m))

\* A handler call: which handler, whether it was given to useMutation
\* ("options") or to mutate ("call"), and its arguments.
HandlerCall(h, level, data, err, v, ctx) ==
    [h |-> h, level |-> level, data |-> data, error |-> err, variables |-> v,
     context |-> ctx]

\* The handlers the deferred closure of call m runs, in order: first is
\* "onSuccess" or "onError".
SettleHandlers(rec, first, data, err) ==
    LET mk(h, level) == HandlerCall(h, level, data, err, rec.variables, rec.context)
        all == <<mk(first, "options"), mk(first, "call"),
                 mk("onSettled", "options"), mk("onSettled", "call")>>
        Given(c) == IF c.level = "options" THEN c.h \in rec.options.handlers
                    ELSE c.h \in rec.mutateOptions
    IN  SelectSeq(all, Given)

\* The closure calls its next handler and awaits it; a handler that throws
\* ends the closure with a rejection nobody handles.
RunHandler(rec) ==
    LET c == Head(rec.todo)
        r == [rec EXCEPT !.todo = Tail(@), !.ran = Append(@, c)]
    IN  IF c.level = "options" /\ c.h \in rec.options.throwing
        THEN [r EXCEPT !.hpc = "failed"]
        ELSE IF r.todo = <<>> THEN [r EXCEPT !.hpc = "done"]
        ELSE [r EXCEPT !.hpc = "await"]

\* The deferred closure is called by the drain.
closureStart(rec) ==
    IF rec.todo = <<>> THEN [rec EXCEPT !.hpc = "done"] ELSE RunHandler(rec)

\* executeMutation after executeWithRetry returned data.
executeMutationSuccess(w, m, data) ==
    LET rec == w.mutations[m]
        w1 == IF mounted
              THEN [w EXCEPT !.mstate =
                       [@ EXCEPT !.data = data, !.error = Null, !.failureCount = 0,
                                 !.failureReason = Null, !.isError = FALSE,
                                 !.isPending = FALSE, !.isSuccess = TRUE,
                                 !.status = "success"]]
              ELSE w
        w2 == defer(w1, TRUE, Callback("mutation", m))
    IN  [w2 EXCEPT !.mutations[m].pc = "done", !.mutations[m].outcome = "resolved",
                   !.mutations[m].value = data, !.mutations[m].hpc = "queued",
                   !.mutations[m].todo = SettleHandlers(rec, "onSuccess", data, Null)]

\* The catch block of executeMutation.
executeMutationCatch(w, m, err) ==
    LET rec == w.mutations[m]
        w1 == IF mounted
              THEN [w EXCEPT !.mstate =
                       [@ EXCEPT !.error = err, !.failureCount = @ + 1,
                                 !.failureReason = err, !.isError = TRUE,
                                 !.isPending = FALSE, !.isSuccess = FALSE,
                                 !.status = "error"]]
              ELSE w
        w2 == defer(w1, TRUE, Callback("mutation", m))
    IN  [w2 EXCEPT !.mutations[m].pc = "done", !.mutations[m].outcome = "rejected",
                   !.mutations[m].error = err, !.mutations[m].hpc = "queued",
                   !.mutations[m].todo = SettleHandlers(rec, "onError", Undefined, err)]

\* The catch block of the module-level executeWithRetry.
mutationRetryCatch(w, m, err) ==
    IF ~shouldRetry(mutationRetry(w.mutations[m].options), w.mutations[m].attempt)
    THEN executeMutationCatch(w, m, err)
    ELSE [w EXCEPT !.mutations[m].pc = "backoff",
                   !.mutations[m].delay =
                       retryDelayOf(w.mutations[m].options.retryDelay,
                                    w.mutations[m].attempt)]

\* The delay has elapsed: attempt++ and the loop calls mutationFn again.
mutationRetryResume(w, m) ==
    [w EXCEPT !.mutations[m].pc = "awaitFn", !.mutations[m].attempt = @ + 1,
              !.mutations[m].calls = @ + 1]

\* mutate: the promise of executeMutation gets a catch that swallows the error.
mutateNoCatch(w, v, co, mo) == executeMutation(w, "mutate", v, co, mo)

mutate(w, v, co, mo) ==
    LET w1 == executeMutation(w, "mutate", v, co, mo)
    IN  [w1 EXCEPT !.mutations[Len(w1.mutations)].caught = TRUE]

\* mutateAsync: the promise of executeMutation is returned to the caller.
mutateAsync(w, v, co, mo) == executeMutation(w, "mutateAsync", v, co, mo)

(***************************************************************************)
(* Actions.                                                                *)
(***************************************************************************)
Rest == UNCHANGED <<now, cfg, mvars, ambient>>

\* A consumer call for key k ends the period in which k counts as collected.
Asked(k) == gcEvicted' = gcEvicted \ {getQueryKey(k)}

FetchQuery(o) ==
    /\ CanFetch(Cur, o)
    /\ Commit(fetchQueryStart(Cur, o, "direct"))
    /\ Asked(o.queryKey)
    /\ Rest

\* The promise of queryFn resolves.  A queryFn that honours the abort signal
\* does not resolve once it is aborted.
QueryFnResolve(f) ==
    /\ fetches[f].pc = "awaitFn"
    /\ cfg.cooperative => ~fetches[f].aborted
    /\ Commit(fetchQuerySuccess(Cur, f, FetchData(f)))
    /\ UNCHANGED gcEvicted
    /\ Rest

\* The promise of queryFn rejects.
QueryFnReject(f, name) ==
    /\ fetches[f].pc = "awaitFn"
    /\ name \in cfg.errorNames
    /\ cfg.cooperative => (fetches[f].aborted <=> name = "AbortError")
    /\ Commit(executeWithRetryCatch(Cur, f, ErrorOf(name, f)))
    /\ UNCHANGED gcEvicted
    /\ Rest

BackoffElapsed(f) ==
    /\ fetches[f].pc = "backoff"
    /\ Commit(executeWithRetryResume(Cur, f))
    /\ UNCHANGED gcEvicted
    /\ Rest

\* The consumer calls refetch() on the result its observer was handed last.
Refetch(ob) ==
    /\ observers[ob].active
    /\ observers[ob].last # NoResult
    /\ CanFetch(Cur, observers[ob].options)
    /\ Commit(refetch(Cur, ob))
    /\ Asked(observers[ob].options.queryKey)
    /\ Rest

SubscribeToQuery(o) ==
    /\ Len(observers) < cfg.maxObservers
    /\ CanGetEntry(Cur, o.queryKey)
    /\ SubscribeFetches(Cur, o) => Len(fetches) < cfg.maxFetches
    /\ Commit(subscribeToQuery(Cur, o))
    /\ Asked(o.queryKey)
    /\ Rest

Unsubscribe(ob) ==
    /\ observers[ob].active
    /\ Commit(unsubscribe(Cur, ob))
    /\ UNCHANGED gcEvicted
    /\ Rest

\* Timeouts of at most the same delay that were armed earlier run first.
GcTimerFire(t) ==
    /\ timers[t].armed
    /\ timers[t].kind \in {"gcFetch", "gcUnsub"}
    /\ \A t2 \in 1..(t - 1) :
          ~(/\ timers[t2].armed
            /\ timers[t2].kind \in {"gcFetch", "gcUnsub"}
            /\ gcTimeOf(timers[t2].options) <= gcTimeOf(timers[t].options))
    /\ Commit(IF timers[t].kind = "gcFetch" THEN gcFetchCallback(Cur, t)
              ELSE gcUnsubCallback(Cur, t))
    /\ gcEvicted' = gcEvicted \cup {s \in SerKeys : cache[s] # NoEntry /\ cache'[s] = NoEntry}
    /\ Rest

IntervalFire(t) ==
    /\ timers[t].armed
    /\ timers[t].kind = "interval"
    /\ CanFetch(Cur, timers[t].options)
    /\ Commit(intervalCallback(Cur, t))
    /\ UNCHANGED gcEvicted
    /\ Rest

InvalidateQueries(k) ==
    /\ Commit(invalidateQueries(Cur, k))
    /\ UNCHANGED gcEvicted
    /\ Rest

SetQueryData(k, x) ==
    /\ CanGetEntry(Cur, k)
    /\ Commit(setQueryData(Cur, k, SetData(x)))
    /\ Asked(k)
    /\ Rest

GetQueryData(k) ==
    /\ Commit(CacheGet(Cur, getQueryKey(k)).w)
    /\ UNCHANGED gcEvicted
    /\ Rest

RemoveQueries(k) ==
    /\ Commit(removeQueries(Cur, k))
    /\ UNCHANGED gcEvicted
    /\ Rest

Clear ==
    /\ Commit(CacheClear(Cur))
    /\ UNCHANGED gcEvicted
    /\ Rest

\* The ttl of the entry stored under s elapses.
TtlElapse(s) ==
    /\ cache[s] # NoEntry
    /\ s \notin expired
    /\ expired' = expired \cup {s}
    /\ UNCHANGED <<cache, lru, entries, fetches, observers, timers, deferred, called,
                   now, gcEvicted, cfg, mvars, isPending, ambient>>

\* Half a second passes on the clock.
Tick ==
    /\ now + 500 <= 1 + 500 * MaxTicks
    /\ now' = now + 500
    /\ UNCHANGED <<cache, lru, expired, entries, fetches, observers, timers, deferred,
                   called, gcEvicted, cfg, mvars, isPending, ambient>>

\* The context the wrapper () => runInContext(callback) runs callback under.
RunContextAmbient(c, cur) == cur

RunContext(c, cur) == c.snapshot

\* The callback throws when it is called: the arrow functions fetchQuery hands
\* to defer call the user's handler directly; the closure of a mutation is an
\* async function and returns a promise instead.
Throws(c) ==
    /\ c.cb \in {"onSuccess", "onError", "onSettled"}
    /\ c.cb \in fetches[c.fid].options.throwing

\* The callbacks queue.forEach calls: all of them, or those up to and
\* including the first one that throws.
Reached ==
    LET thrown == {i \in DOMAIN deferred : Throws(deferred[i])}
    IN  IF thrown = {} THEN DOMAIN deferred
        ELSE {i \in DOMAIN deferred : \A j \in thrown : i <= j}

\* The record of calling c now: the context it runs under and how many times
\* it has been called.
Invocation(c) ==
    [c EXCEPT !.at = ambient,
              !.ctx = RunContext(c, ambient),
              !.run = 1 + Cardinality({d \in called : d.cb = c.cb /\ d.fid = c.fid})]

\* The microtask scheduled by defer runs: isPending is reset, every queued
\* callback is called in order and the queue is cleared; a callback that
\* throws ends the forEach, and queue.clear() is not reached.  The closure of
\* a mutation runs up to its first await.
DrainDeferred ==
    /\ isPending
    /\ isPending' = FALSE
    /\ called' = called \cup {Invocation(deferred[i]) : i \in Reached}
    /\ deferred' = IF Reached = DOMAIN deferred /\ ~\E i \in Reached : Throws(deferred[i])
                   THEN <<>> ELSE deferred
    /\ mutations' = SeqFrom([m \in DOMAIN mutations |->
                                IF \E i \in Reached :
                                      deferred[i].cb = "mutation" /\ deferred[i].fid = m
                                THEN closureStart(mutations[m]) ELSE mutations[m]],
                             Len(mutations))
    /\ UNCHANGED <<cache, lru, expired, entries, fetches, observers, timers, now,
                   gcEvicted, cfg, mstate, mounted, ambient>>

\* Another request's context becomes current.
EnterContext(c) ==
    /\ c # ambient
    /\ ambient' = c
    /\ UNCHANGED <<cache, lru, expired, entries, fetches, observers, timers, deferred,
                   called, now, gcEvicted, cfg, mvars, isPending>>

(***************************************************************************)
(* Actions of the useMutation hook.                                        *)
(***************************************************************************)
MCommit(w) ==
    /\ mutations' = w.mutations
    /\ mstate' = w.mstate
    /\ deferred' = w.deferred
    /\ isPending' = w.isPending
    /\ UNCHANGED <<cache, lru, expired, entries, fetches, observers, timers, called, now,
                   gcEvicted, cfg, mounted, ambient>>

Mutate(v, co, mo) ==
    /\ Len(mutations) < cfg.maxMutations
    /\ MCommit(mutate(MCur, v, co, mo))

MutateAsync(v, co, mo) ==
    /\ Len(mutations) < cfg.maxMutations
    /\ MCommit(mutateAsync(MCur, v, co, mo))

OnMutateSettle(m) ==
    /\ mutations[m].pc = "onMutate"
    /\ MCommit(executeMutationOnMutateSettled(MCur, m))

MutationFnResolve(m) ==
    /\ mutations[m].pc = "awaitFn"
    /\ MCommit(executeMutationSuccess(MCur, m, MutationData(m)))

MutationFnReject(m) ==
    /\ mutations[m].pc = "awaitFn"
    /\ MCommit(mutationRetryCatch(MCur, m, ErrorOf("Error", m)))

MutationBackoffElapsed(m) ==
    /\ mutations[m].pc = "backoff"
    /\ MCommit(mutationRetryResume(MCur, m))

\* The closure of a mutation resumes after the handler it awaited.
HandlerSettle(m) ==
    /\ mutations[m].hpc = "await"
    /\ MCommit([MCur EXCEPT !.mutations[m] = RunHandler(@)])

Reset ==
    /\ mstate # InitialMutationState
    /\ mstate' = InitialMutationState
    /\ UNCHANGED <<cache, lru, expired, entries, fetches, observers, timers, deferred,
                   called, now, gcEvicted, cfg, mutations, mounted, isPending, ambient>>

Unmount ==
    /\ mounted
    /\ mounted' = FALSE
    /\ UNCHANGED <<cache, lru, expired, entries, fetches, observers, timers, deferred,
                   called, now, gcEvicted, cfg, mutations, mstate, isPending, ambient>>

Mids == DOMAIN mutations

(***************************************************************************)
(* Scenarios and specifications.                                           *)
(***************************************************************************)
InitWith(c) ==
    /\ cache = [s \in SerKeys |-> NoEntry]
    /\ lru = <<>>
    /\ expired = {}
    /\ entries = <<>>
    /\ fetches = <<>>
    /\ observers = <<>>
    /\ timers = <<>>
    /\ deferred = <<>>
    /\ called = {}
    /\ now = 1
    /\ gcEvicted = {}
    /\ cfg = c
    /\ mutations = <<>>
    /\ mstate = InitialMutationState
    /\ mounted = TRUE
    /\ isPending = FALSE
    /\ ambient = RootContext

Fids == DOMAIN fetches
Obs == DOMAIN observers
Tids == DOMAIN timers
Eids == DOMAIN entries

Scenario(keys, options, nf, no, ne) ==
    [keys |-> keys, keyArgs |-> keys \cup {NoKey}, options |-> options,
     maxSize |-> DefaultMaxSize, errorNames |-> ErrorNames, cooperative |-> FALSE,
     maxFetches |-> nf, maxObservers |-> no, maxEntries |-> ne,
     maxMutations |-> 0, mutationOptions |-> {}, contexts |-> {RootContext}]

\* Direct fetches and one subscriber on one key; entries leave the store by
\* removeQueries and by ttl.  gcTime = 0, so no GC timer is armed.
CoreOptions == {BaseOptions(KPosts)}

NoGcOptions == {[BaseOptions(KPosts) EXCEPT !.gcTime = 0]}

Init == InitWith(Scenario({KPosts}, NoGcOptions, MaxFetches, MaxObservers, MaxEntries))

Next ==
    \/ \E o \in cfg.options : FetchQuery(o)
    \/ \E o \in cfg.options : SubscribeToQuery(o)
    \/ \E ob \in Obs : Unsubscribe(ob)
    \/ \E f \in Fids : QueryFnResolve(f)
    \/ \E f \in Fids, name \in ErrorNames : QueryFnReject(f, name)
    \/ \E k \in cfg.keyArgs : RemoveQueries(k)
    \/ \E k \in cfg.keys : GetQueryData(k)
    \/ \E s \in SerKeys : TtlElapse(s)

Spec == Init /\ [][Next]_vars

\* A direct fetch on one key under every kind of retry option, cancelled or
\* not by removeQueries.
RetryOptions ==
    {[BaseOptions(KPosts) EXCEPT !.retry = r] :
        r \in {RetryOmitted, RetryBool(TRUE), RetryBool(FALSE)}
              \cup {RetryNum(n) : n \in 0..MaxRetryN}}

InitRetry == InitWith(Scenario({KPosts}, RetryOptions, RetryMaxFetches, 0, MaxEntries))

NextRetry ==
    \/ \E o \in cfg.options : FetchQuery(o)
    \/ \E f \in Fids : QueryFnResolve(f)
    \/ \E f \in Fids, name \in ErrorNames : QueryFnReject(f, name)
    \/ \E f \in Fids : BackoffElapsed(f)
    \/ \E k \in cfg.keys : RemoveQueries(k)

SpecRetry == InitRetry /\ [][NextRetry]_vars

\* Fetches and a subscriber on one key with onSuccess, onError and onSettled
\* given.
CallbackOptions ==
    {[BaseOptions(KPosts) EXCEPT !.onSuccess = TRUE, !.onError = TRUE, !.onSettled = TRUE]}

InitCallbacks ==
    InitWith(Scenario({KPosts}, CallbackOptions, CallbackMaxFetches, CallbackMaxObservers,
                      MaxEntries))

NextCallbacks ==
    \/ \E o \in cfg.options : FetchQuery(o)
    \/ \E o \in cfg.options : SubscribeToQuery(o)
    \/ \E f \in Fids : QueryFnResolve(f)
    \/ \E f \in Fids, name \in ErrorNames : QueryFnReject(f, name)
    \/ \E k \in cfg.keys : RemoveQueries(k)
    \/ DrainDeferred

SpecCallbacks == InitCallbacks /\ [][NextCallbacks]_vars

\* Two subscribers on one key, with the GC timers.
InitObservers ==
    InitWith(Scenario({KPosts}, CoreOptions, ObserverMaxFetches, ObserverMaxObservers, MaxEntries))

NextObservers ==
    \/ \E o \in cfg.options : FetchQuery(o)
    \/ \E o \in cfg.options : SubscribeToQuery(o)
    \/ \E ob \in Obs : Unsubscribe(ob)
    \/ \E f \in Fids : QueryFnResolve(f)
    \/ \E f \in Fids, name \in ErrorNames : QueryFnReject(f, name)
    \/ \E t \in Tids : GcTimerFire(t)

SpecObservers == InitObservers /\ [][NextObservers]_vars

\* One subscriber on a key polled with refetchInterval = 10 and gcTime = 50,
\* with a queryFn that honours the abort signal.
IntervalOptions ==
    {[BaseOptions(KPosts) EXCEPT !.refetchInterval = 10, !.gcTime = 50]}

InitInterval ==
    InitWith([Scenario({KPosts}, IntervalOptions, IntervalMaxFetches, 1, IntervalMaxEntries)
                EXCEPT !.cooperative = TRUE])

NextInterval ==
    \/ \E o \in cfg.options : SubscribeToQuery(o)
    \/ \E ob \in Obs : Unsubscribe(ob)
    \/ \E f \in Fids : QueryFnResolve(f)
    \/ \E f \in Fids, name \in ErrorNames : QueryFnReject(f, name)
    \/ \E t \in Tids : GcTimerFire(t)
    \/ \E t \in Tids : IntervalFire(t)

SpecInterval == InitInterval /\ [][NextInterval]_vars

\* Two keys, one a prefix of the other, with invalidateQueries; gcTime = 0, so
\* no GC timer is armed.
InvalidateOptions == {[BaseOptions(k) EXCEPT !.gcTime = 0] : k \in {KPosts, KPostsList}}

InitInvalidate ==
    InitWith(Scenario({KPosts, KPostsList}, InvalidateOptions, InvalidateMaxFetches,
                      InvalidateMaxObservers, InvalidateMaxEntries))

NextInvalidate ==
    \/ \E o \in cfg.options : FetchQuery(o)
    \/ \E o \in cfg.options : SubscribeToQuery(o)
    \/ \E ob \in Obs : Unsubscribe(ob)
    \/ \E f \in Fids : QueryFnResolve(f)
    \/ \E f \in Fids, name \in ErrorNames : QueryFnReject(f, name)
    \/ \E k \in cfg.keyArgs : InvalidateQueries(k)
    \/ \E s \in SerKeys : TtlElapse(s)

SpecInvalidate == InitInvalidate /\ [][NextInvalidate]_vars

\* Two keys, one of them the empty string, in a store that holds one entry:
\* direct fetches, setQueryData and getQueryData, removal and ttl.
SetDataOptions == {[BaseOptions(k) EXCEPT !.gcTime = 0] : k \in {KPosts, KEmpty}}

InitSetData ==
    InitWith([Scenario({KPosts, KEmpty}, SetDataOptions, SetDataMaxFetches, 0,
                       SetDataMaxEntries)
                EXCEPT !.maxSize = SetDataMaxSize])

NextSetData ==
    \/ \E o \in cfg.options : FetchQuery(o)
    \/ \E f \in Fids : QueryFnResolve(f)
    \/ \E f \in Fids, name \in ErrorNames : QueryFnReject(f, name)
    \/ \E k \in cfg.keys, x \in SetValues : SetQueryData(k, x)
    \/ \E k \in cfg.keys : GetQueryData(k)
    \/ \E s \in SerKeys : TtlElapse(s)

SpecSetData == InitSetData /\ [][NextSetData]_vars

\* Subscribers on one key with staleTime omitted, 1000, or longer than the
\* clock value, notified at different times.
StaleTimes == {Undef, 1000, 1000000}

StaleOptions ==
    {[BaseOptions(KPosts) EXCEPT !.gcTime = 0, !.staleTime = st] : st \in StaleTimes}

InitStale ==
    InitWith(Scenario({KPosts}, StaleOptions, StaleMaxFetches, StaleMaxObservers, MaxEntries))

NextStale ==
    \/ \E o \in cfg.options : SubscribeToQuery(o)
    \/ \E f \in Fids : QueryFnResolve(f)
    \/ \E f \in Fids, name \in ErrorNames : QueryFnReject(f, name)
    \/ \E k \in cfg.keys : InvalidateQueries(k)
    \/ Tick

SpecStale == InitStale /\ [][NextStale]_vars

\* One useMutation hook with all handlers given, rendered with an onMutate or
\* with an onSuccess that throws; the i-th call passes i as its variables, by
\* mutate with handlers of its own or by mutateAsync without.
AllHandlers == {"onSuccess", "onError", "onSettled"}

LifecycleOptions ==
    {MutationOptions("returns", RetryOmitted, AllHandlers, {}),
     MutationOptions("none", RetryOmitted, AllHandlers, {"onSuccess"})}

MutationScenario(options, nm) ==
    [Scenario({KPosts}, CoreOptions, 0, 0, 0) EXCEPT
        !.maxMutations = nm, !.mutationOptions = options]

InitMutation == InitWith(MutationScenario(LifecycleOptions, MaxMutations))

NextMutation ==
    \/ \E co \in cfg.mutationOptions : Mutate(Len(mutations) + 1, co, AllHandlers)
    \/ \E co \in cfg.mutationOptions : MutateAsync(Len(mutations) + 1, co, {})
    \/ \E m \in Mids : OnMutateSettle(m)
    \/ \E m \in Mids : MutationFnResolve(m)
    \/ \E m \in Mids : MutationFnReject(m)
    \/ \E m \in Mids : HandlerSettle(m)
    \/ DrainDeferred

SpecMutation == InitMutation /\ [][NextMutation]_vars

\* One call of a mutation whose mutationFn may keep rejecting, under every
\* kind of retry option, in a component that may unmount.
MutationRetryOptions ==
    {MutationOptions("none", r, {}, {}) :
        r \in {RetryOmitted, RetryBool(TRUE), RetryBool(FALSE)}
              \cup {RetryNum(n) : n \in 0..MaxRetryN}}

InitMutationRetry == InitWith(MutationScenario(MutationRetryOptions, RetryMaxMutations))

NextMutationRetry ==
    \/ \E co \in cfg.mutationOptions : Mutate(1, co, {})
    \/ \E co \in cfg.mutationOptions : MutateAsync(1, co, {})
    \/ \E m \in Mids : MutationFnResolve(m)
    \/ \E m \in Mids : MutationFnReject(m)
    \/ \E m \in Mids : MutationBackoffElapsed(m)
    \/ DrainDeferred
    \/ Unmount

SpecMutationRetry == InitMutationRetry /\ [][NextMutationRetry]_vars

\* One fetch and one mutation that retry MaxBackoffRetry times, with
\* retryDelay omitted, 0, 250 or a function.
RetryDelays == {RetryDelayOmitted, RetryDelayNum(0), RetryDelayNum(250), RetryDelayFn(100)}

BackoffOptions ==
    {[BaseOptions(KPosts) EXCEPT !.retry = RetryNum(MaxBackoffRetry), !.retryDelay = rd,
                                 !.gcTime = 0] : rd \in RetryDelays}

BackoffMutationOptions ==
    {[MutationOptions("none", RetryNum(MaxBackoffRetry), {}, {}) EXCEPT !.retryDelay = rd] :
        rd \in RetryDelays}

InitBackoff ==
    InitWith([Scenario({KPosts}, BackoffOptions, 1, 0, 1) EXCEPT
                 !.maxMutations = 1, !.mutationOptions = BackoffMutationOptions])

NextBackoff ==
    \/ \E o \in cfg.options : FetchQuery(o)
    \/ \E f \in Fids : QueryFnResolve(f)
    \/ \E f \in Fids : QueryFnReject(f, "Error")
    \/ \E f \in Fids : BackoffElapsed(f)
    \/ \E co \in cfg.mutationOptions : MutateAsync(1, co, {})
    \/ \E m \in Mids : MutationFnResolve(m)
    \/ \E m \in Mids : MutationFnReject(m)
    \/ \E m \in Mids : MutationBackoffElapsed(m)

SpecBackoff == InitBackoff /\ [][NextBackoff]_vars

\* Three key objects: two arrays with the same contents and the string
\* "posts", plus the empty string, used with every keyed operation.
KeyObjects == {KPosts, KPostsCopy, KPostsString}

KeysOptions == {[BaseOptions(k) EXCEPT !.gcTime = 0] : k \in KeyObjects}

InitKeys ==
    InitWith([Scenario(KeyObjects, KeysOptions, KeysMaxCells, KeysMaxCells, KeysMaxCells)
                 EXCEPT !.keyArgs = KeyObjects \cup {KEmpty}])

\* The operations of the scenario allocate at most KeysMaxCells entries,
\* fetches and observers together.
NextKeys ==
    /\ \/ \E o \in cfg.options : FetchQuery(o)
       \/ \E o \in cfg.options : SubscribeToQuery(o)
       \/ \E f \in Fids : QueryFnResolve(f)
       \/ \E k \in cfg.keys, x \in SetValues : SetQueryData(k, x)
       \/ \E k \in cfg.keys : GetQueryData(k)
       \/ \E k \in cfg.keyArgs : InvalidateQueries(k)
       \/ \E k \in cfg.keyArgs : RemoveQueries(k)
    /\ Len(entries') + Len(fetches') + Len(observers') <= KeysMaxCells

SpecKeys == InitKeys /\ [][NextKeys]_vars

\* Subscribers with and without a select on one key, with every operation
\* that changes the state of its entry.
ProjectionOptions ==
    {[BaseOptions(KPosts) EXCEPT !.gcTime = 0, !.select = sel] : sel \in BOOLEAN}

InitProjection ==
    InitWith(Scenario({KPosts}, ProjectionOptions, ProjMaxFetches, ProjMaxObservers,
                      MaxEntries))

NextProjection ==
    \/ \E o \in cfg.options : SubscribeToQuery(o)
    \/ \E ob \in Obs : Unsubscribe(ob)
    \/ \E o \in cfg.options : FetchQuery(o)
    \/ \E f \in Fids : QueryFnResolve(f)
    \/ \E f \in Fids : QueryFnReject(f, "Error")
    \/ \E k \in cfg.keys : InvalidateQueries(k)
    \/ \E k \in cfg.keys, x \in SetValues : SetQueryData(k, x)

SpecProjection == InitProjection /\ [][NextProjection]_vars

\* Fetches with all three callbacks, whose onSuccess may throw, issued and
\* drained under two request contexts.
RequestContext == "request"

DeferOptions ==
    {[BaseOptions(KPosts) EXCEPT !.gcTime = 0, !.onSuccess = TRUE, !.onError = TRUE,
                                 !.onSettled = TRUE, !.throwing = th] :
        th \in {{}, {"onSuccess"}}}

InitDefer ==
    InitWith([Scenario({KPosts}, DeferOptions, DeferMaxFetches, 0, MaxEntries)
                 EXCEPT !.contexts = {RootContext, RequestContext}])

NextDefer ==
    \/ \E o \in cfg.options : FetchQuery(o)
    \/ \E f \in Fids : QueryFnResolve(f)
    \/ \E f \in Fids, name \in ErrorNames : QueryFnReject(f, name)
    \/ DrainDeferred
    \/ \E c \in cfg.contexts : EnterContext(c)

SpecDefer == InitDefer /\ [][NextDefer]_vars

\* One subscriber that calls refetch() on the result it holds, with
\* setQueryData and invalidateQueries in between.
InitRefetch ==
    InitWith(Scenario({KPosts}, NoGcOptions, RefetchMaxFetches, RefetchMaxObservers,
                      MaxEntries))

NextRefetch ==
    \/ \E o \in cfg.options : SubscribeToQuery(o)
    \/ \E ob \in Obs : Refetch(ob)
    \/ \E f \in Fids : QueryFnResolve(f)
    \/ \E f \in Fids, name \in ErrorNames : QueryFnReject(f, name)
    \/ \E k \in cfg.keys : InvalidateQueries(k)
    \/ \E k \in cfg.keys, x \in SetValues : SetQueryData(k, x)

SpecRefetch == InitRefetch /\ [][NextRefetch]_vars

\* One useMutation hook with all handlers, rendered with an onMutate that
\* returns a context, throws, or returns a promise that rejects.
OnMutateOptions ==
    {MutationOptions(om, RetryOmitted, AllHandlers, {}) : om \in {"returns", "throws", "rejects"}}

InitOnMutate == InitWith(MutationScenario(OnMutateOptions, OnMutateMaxMutations))

NextOnMutate ==
    \/ \E co \in cfg.mutationOptions : Mutate(Len(mutations) + 1, co, AllHandlers)
    \/ \E co \in cfg.mutationOptions : MutateAsync(Len(mutations) + 1, co, {})
    \/ \E m \in Mids : OnMutateSettle(m)
    \/ \E m \in Mids : MutationFnResolve(m)
    \/ \E m \in Mids : MutationFnReject(m)
    \/ \E m \in Mids : HandlerSettle(m)
    \/ DrainDeferred

SpecOnMutate == InitOnMutate /\ [][NextOnMutate]_vars

(***************************************************************************)
(* Properties.                                                             *)
(***************************************************************************)
InFlight(f) == fetches[f].pc # "done"
KeyOf(f) == getQueryKey(fetches[f].options.queryKey)

\* C1: once the fetch issued last for an entry has settled, the entry's data,
\* status and error are the ones that fetch produced; no earlier fetch's
\* result replaces them.
C1_LastIssuedWins ==
    \A e \in Eids :
        LET b == entries[e].abortController
            st == entries[e].state
        IN  /\ (b # NoController /\ fetches[b].outcome = "resolved"
                  /\ fetches[b].value = FetchData(b))
               => (st.status = "success" /\ st.data = FetchData(b) /\ st.error = Null)
            /\ (b # NoController /\ fetches[b].outcome = "rejected"
                  /\ fetches[b].error.name # "AbortError")
               => (st.status = "error" /\ st.error = fetches[b].error)

\* C3: for every key at most one fetch is in flight and not aborted.
C3_SingleFlight ==
    \A s \in SerKeys :
        Cardinality({f \in Fids : KeyOf(f) = s /\ InFlight(f) /\ ~fetches[f].aborted}) <= 1

\* A fetch was started while another was in flight for the key, and the
\* earlier one is aborted.
C3_Witness ==
    \E f1, f2 \in Fids :
        /\ f1 < f2
        /\ KeyOf(f1) = KeyOf(f2)
        /\ InFlight(f1) /\ fetches[f1].aborted
        /\ InFlight(f2) /\ ~fetches[f2].aborted

\* The number of retries a retry option allows.
RetryLimit(retry) ==
    IF retry.kind = "omitted" THEN 3
    ELSE IF retry.kind = "boolean" THEN (IF retry.n = 1 THEN 3 ELSE 0)
    ELSE retry.n

\* C5: a fetch that is not cancelled and whose queryFn keeps rejecting calls
\* queryFn exactly n+1 times for retry = n (true and omitted: n = 3, false:
\* n = 0), and the entry does not carry that fetch's error before its last
\* call has failed.
C5_RetryCount ==
    \A f \in Fids :
        LET n == RetryLimit(fetches[f].options.retry)
            st == entries[fetches[f].entry].state
        IN  ~fetches[f].aborted =>
              /\ fetches[f].calls <= n + 1
              /\ (fetches[f].pc = "done" /\ fetches[f].value # FetchData(f))
                 => fetches[f].calls = n + 1
              /\ (st.status = "error" /\ st.error.id = f)
                 => (fetches[f].outcome = "rejected" /\ fetches[f].calls = n + 1)

C5_Witness ==
    \E f \in Fids :
        /\ fetches[f].options.retry = RetryNum(2)
        /\ ~fetches[f].aborted
        /\ fetches[f].outcome = "rejected"
        /\ fetches[f].calls = 3
        /\ entries[fetches[f].entry].state.status = "error"

\* C6: once a fetch is aborted, queryFn is not called again on its behalf.
C6_NoCallAfterAbort ==
    [][\A f \in Fids : fetches[f].aborted => fetches'[f].calls = fetches[f].calls]_vars

\* C2: when an aborted fetch completes, the state of its entry is left as it
\* was and neither onSuccess nor onError is queued for it.
C2_CancelledLeavesNoTrace ==
    [][\A f \in Fids :
          (fetches[f].aborted /\ InFlight(f) /\ fetches'[f].pc = "done")
          => /\ entries'[fetches[f].entry].state = entries[fetches[f].entry].state
             /\ \A i \in DOMAIN deferred' :
                   (deferred'[i].fid = f /\ deferred'[i].cb \in {"onSuccess", "onError"})
                   => (i \in DOMAIN deferred /\ deferred[i] = deferred'[i])]_vars

\* A fetch is in flight, not aborted, on the entry stored under the key.
KeyInFlight(k) ==
    LET s == getQueryKey(k)
    IN  /\ cache[s] # NoEntry
        /\ \E f \in Fids : fetches[f].entry = cache[s] /\ InFlight(f) /\ ~fetches[f].aborted

\* C4: subscribing to a key that has a fetch in flight issues no fetch.
C4_SubscribeDeduplicates ==
    [][\A o \in cfg.options :
          (SubscribeToQuery(o) /\ KeyInFlight(o.queryKey))
          => Len(fetches') = Len(fetches)]_vars

\* C7: a key removed by a GC timer has no data in the store until a consumer
\* calls fetchQuery, subscribeToQuery or setQueryData for it.
C7_GcEvictedStaysGone ==
    \A k \in cfg.keys :
        getQueryKey(k) \in gcEvicted => getQueryDataValue(Cur, k) = Undefined

\* C8: a GC timer removes an entry only when the entry has no observer.
C8_GcSparesObserved ==
    [][\A t \in Tids :
          GcTimerFire(t)
          => \A s \in SerKeys :
                (cache[s] # NoEntry /\ cache'[s] = NoEntry)
                => entries[cache[s]].observers = {}]_vars

\* k is a prefix of (or equal to) k2; an omitted key matches every key.
IsPrefixKey(k, k2) ==
    \/ ~Truthy(k)
    \/ /\ k.kind = k2.kind
       /\ Len(k.parts) <= Len(k2.parts)
       /\ SubSeq(k2.parts, 1, Len(k.parts)) = k.parts

\* C9: invalidateQueries(k) starts exactly one fetch for every observed entry
\* whose key has k as a prefix.
C9_InvalidateRefetchesObserved ==
    [][\A k \in cfg.keyArgs :
          InvalidateQueries(k)
          => \A k2 \in cfg.keys :
                LET s == getQueryKey(k2)
                IN  (/\ IsPrefixKey(k, k2)
                     /\ cache[s] # NoEntry
                     /\ s \notin expired
                     /\ entries[cache[s]].observers # {})
                    => /\ Len(fetches') = Len(fetches) + 1
                       /\ getQueryKey(fetches'[Len(fetches')].options.queryKey) = s]_vars

\* The entries invalidateQueries(k) finds in the store.
Matched(k) ==
    IF Truthy(k)
    THEN {cache[s] : s \in {x \in {getQueryKey(k)} : cache[x] # NoEntry /\ x \notin expired}}
    ELSE CacheValues(Cur)

FrameOfState(st) ==
    <<st.data, st.dataUpdatedAt, st.error, st.errorUpdatedAt, st.status, st.fetchStatus,
      st.failureCount>>

\* C10: invalidateQueries sets isInvalidated on every matched entry, changes no
\* other field of any entry's state, starts no fetch and adds no entry.
C10_InvalidateFrame ==
    [][\A k \in cfg.keyArgs :
          InvalidateQueries(k)
          => /\ \A e \in Matched(k) : entries'[e].state.isInvalidated
             /\ Len(entries') = Len(entries)
             /\ \A e \in Eids : FrameOfState(entries'[e].state) = FrameOfState(entries[e].state)
             /\ Len(fetches') = Len(fetches)
             /\ \A f \in Fids : fetches'[f].calls = fetches[f].calls
             /\ \A s \in SerKeys : cache[s] = NoEntry => cache'[s] = NoEntry]_vars

\* An entry without observers that holds data and was invalidated while no
\* fetch was in flight.
C10_Witness ==
    \E e \in Eids :
        /\ entries[e].state.isInvalidated
        /\ entries[e].observers = {}
        /\ entries[e].state.status = "success"
        /\ entries[e].state.fetchStatus = "idle"
        /\ \A f \in Fids : fetches[f].entry = e => ~InFlight(f)

\* C11: subscribing with enabled not false to a stored entry that has no
\* observers, status success and isInvalidated set starts a fetch.
C11_InvalidatedRefetchedOnSubscribe ==
    [][\A o \in cfg.options :
          LET s == getQueryKey(o.queryKey)
          IN  (/\ SubscribeToQuery(o)
               /\ o.enabled
               /\ cache[s] # NoEntry
               /\ s \notin expired
               /\ entries[cache[s]].observers = {}
               /\ entries[cache[s]].state.status = "success"
               /\ entries[cache[s]].state.isInvalidated)
              => Len(fetches') = Len(fetches) + 1]_vars

\* The world after the step.
CurNext ==
    [cache |-> cache', lru |-> lru', expired |-> expired', entries |-> entries',
     fetches |-> fetches', observers |-> observers', timers |-> timers',
     deferred |-> deferred', called |-> called', isPending |-> isPending',
     ambient |-> ambient']

C13_StateInvariant ==
    \A e \in Eids :
        LET st == entries[e].state
        IN  /\ st.status = "success" => (st.data # Undefined /\ st.error = Null)
            /\ st.status = "error" => st.error # Null

\* C14: a stored entry whose fetchStatus is fetching has a fetchQuery call in
\* flight that will set it back to idle when its queryFn has settled.
C14_FetchingIsTransient ==
    \A s \in SerKeys :
        (cache[s] # NoEntry /\ entries[cache[s]].state.fetchStatus = "fetching")
        => \E f \in Fids : fetches[f].entry = cache[s] /\ InFlight(f)

\* The observers that were handed a result in the step.
Notified ==
    {ob \in DOMAIN observers' :
        /\ observers'[ob].last # NoResult
        /\ (ob \in DOMAIN observers => observers'[ob].last # observers[ob].last)}

StaleTimeOf(ob) ==
    IF observers'[ob].options.staleTime = Undef THEN 0 ELSE observers'[ob].options.staleTime

\* Every result handed to an observer has isStale true exactly when
\* now - dataUpdatedAt > staleTime, staleTime being 0 when omitted.
IsStaleExact ==
    \A ob \in Notified :
        observers'[ob].last.isStale
            <=> (now' - observers'[ob].last.state.dataUpdatedAt > StaleTimeOf(ob))

\* C15 as stated: isStale is exact, and a result for an entry that has never
\* fetched (dataUpdatedAt = 0) is stale.
C15_NeverFetchedIsStale ==
    [][/\ IsStaleExact
       /\ \A ob \in Notified :
             observers'[ob].last.state.dataUpdatedAt = 0 => observers'[ob].last.isStale]_vars

\* C15 amended: isStale is exact, and a result for an entry that has never
\* fetched is stale when staleTime is less than the clock value.
C15_IsStale ==
    [][/\ IsStaleExact
       /\ \A ob \in Notified :
             (observers'[ob].last.state.dataUpdatedAt = 0 /\ StaleTimeOf(ob) < now')
             => observers'[ob].last.isStale]_vars

\* With staleTime = 1000, an observer was handed a result 1500 ms after the
\* success and it is stale.
C15_Witness ==
    \E b \in Obs :
        /\ observers[b].options.staleTime = 1000
        /\ observers[b].last # NoResult
        /\ observers[b].last.state.status = "success"
        /\ observers[b].last.isStale
        /\ now - observers[b].last.state.dataUpdatedAt = 1500

\* The entry stored under the key of o, NoEntry when there is none.
StoredEntry(o) ==
    LET s == getQueryKey(o.queryKey)
    IN  IF cache[s] # NoEntry /\ s \notin expired THEN cache[s] ELSE NoEntry

\* The entry has no successful fetch behind it.
NeverSucceeded(e) ==
    e = NoEntry \/ (entries[e].state.status \in {"pending", "error"}
                    /\ entries[e].state.dataUpdatedAt = 0)

\* C16: subscribeToQuery(o) starts a fetch when o.enabled is not false and the
\* entry has never fetched successfully, and starts none when o.enabled is
\* false or the entry has fetched successfully.
C16_FetchOnSubscribe ==
    [][\A o \in cfg.options :
          SubscribeToQuery(o)
          => IF o.enabled /\ NeverSucceeded(StoredEntry(o))
             THEN /\ Len(fetches') = Len(fetches) + 1
                  /\ fetches'[Len(fetches')].origin = "subscribe"
             ELSE Len(fetches') = Len(fetches)]_vars

\* The promise fetchQuery returned has a handler: subscribeToQuery and the
\* refetch interval callback drop the promise, a direct caller holds it.
PromiseHandled(f) == fetches[f].origin = "direct"

\* C17: a fetch started by subscribeToQuery or by the refetch interval timer
\* that fails records the failure in the entry and leaves no rejected promise
\* without a handler.
C17_RejectionsFolded ==
    \A f \in Fids : fetches[f].outcome = "rejected" => PromiseHandled(f)

\* C18: a timer callback runs only for an entry that is in the store: the
\* timers of an entry that left the store have been cleared, and a fetch in
\* flight for it has been aborted.
C18_NoOrphanTimers ==
    [][/\ \A t \in Tids :
             (GcTimerFire(t) \/ IntervalFire(t))
             => cache[getQueryKey(timers[t].options.queryKey)] = timers[t].entry
       /\ \A f \in Fids :
             (InFlight(f) /\ cache'[KeyOf(f)] # fetches[f].entry) => fetches'[f].aborted]_vars

\* The callbacks handed to defer in the step.
Queued == {deferred'[i] : i \in DOMAIN deferred'} \ {deferred[i] : i \in DOMAIN deferred}

\* The observers of entry e hold the result built from its state after the step.
ObserversNotified(e) ==
    \A ob \in entries'[e].observers :
        observers'[ob].last = buildQueryResult(entries'[e].state, observers'[ob].options)

\* C19: a callback of a fetch runs only when the deferred queue is drained,
\* never in the step that settles the fetch; when it is handed to defer the
\* fetch has settled and, where the fetch resolved or failed, its result is
\* written to the entry and the observers of the entry have been notified.
C19_CallbacksDeferred ==
    [][/\ \A c \in called' \ called : c \in {deferred[i] : i \in DOMAIN deferred}
       /\ \A c \in Queued :
             LET f == c.fid
                 e == fetches[f].entry
                 st == entries'[e].state
             IN  /\ c \notin called'
                 /\ InFlight(f)
                 /\ fetches'[f].pc = "done"
                 /\ c.cb = "onSuccess"
                    => (st.status = "success" /\ st.data = fetches'[f].value)
                 /\ c.cb = "onError"
                    => (st.status = "error" /\ st.error = fetches'[f].error)
                 /\ (fetches'[f].outcome = "rejected" \/ fetches'[f].value = FetchData(f))
                    => (st.fetchStatus = "idle" /\ ObserversNotified(e))]_vars

\* The callbacks of a fetch that resolved and of one that failed have run,
\* and the entry has an observer.
C19_Witness ==
    /\ \E c \in called : c.cb = "onSuccess"
    /\ \E c \in called : c.cb = "onError"
    /\ \E c \in called : c.cb = "onSettled"
    /\ \E e \in Eids : entries[e].observers # {}

\* C20: when queryFn rejects with err for a fetch that is not aborted and no
\* retry is left, the entry gets status error, error = err, errorUpdatedAt =
\* now, failureCount one higher, fetchStatus idle and keeps its data; the
\* fetchQuery promise rejects with err and every observer of the entry is
\* handed a result with isError.
C20_FailureTransition ==
    [][\A f \in Fids, name \in ErrorNames :
          (/\ QueryFnReject(f, name)
           /\ ~fetches[f].aborted
           /\ ~shouldRetry(fetches[f].options.retry, fetches[f].attempt))
          => LET e == fetches[f].entry
                 st == entries'[e].state
             IN  /\ st.status = "error"
                 /\ st.error = ErrorOf(name, f)
                 /\ st.errorUpdatedAt = now
                 /\ st.failureCount = entries[e].state.failureCount + 1
                 /\ st.fetchStatus = "idle"
                 /\ st.data = entries[e].state.data
                 /\ fetches'[f].outcome = "rejected"
                 /\ fetches'[f].error = ErrorOf(name, f)
                 /\ \A ob \in entries[e].observers :
                       observers'[ob].last # NoResult /\ observers'[ob].last.isError]_vars

\* The handlers of the given names that call m has run.
RanOf(m, hs) == SelectSeq(mutations[m].ran, LAMBDA c : c.h \in hs)

\* The closure of call m has ended, normally or by a handler that threw.
ClosureEnded(m) == mutations[m].hpc \in {"done", "failed"}

\* The handler calls of m carry the variables and the context of m.
OwnArguments(m) ==
    \A i \in DOMAIN mutations[m].ran :
        /\ mutations[m].ran[i].variables = mutations[m].variables
        /\ mutations[m].ran[i].context = mutations[m].context

\* C21: in every call, mutationFn is not invoked before onMutate has
\* completed and the context is the value onMutate returned; no handler runs
\* before the deferred closure is called; once the closure has ended, the
\* handlers of exactly one of onSuccess and onError have run, followed by
\* onSettled, all with the variables and the context of the call.
C21_MutationLifecycle ==
    \A m \in Mids :
        LET rec == mutations[m]
            first == IF rec.outcome = "resolved" THEN "onSuccess" ELSE "onError"
        IN  /\ rec.pc \in {"start", "onMutate"} => rec.calls = 0
            /\ (rec.calls > 0 /\ rec.options.onMutate # "none")
               => (rec.onMutateCalls = 1 /\ rec.context = ContextOf(m))
            /\ rec.hpc \in {"none", "queued"} => rec.ran = <<>>
            /\ OwnArguments(m)
            /\ ClosureEnded(m)
               => /\ RanOf(m, {"onSuccess", "onError"}) # <<>>
                  /\ RanOf(m, AllHandlers \ {first, "onSettled"}) = <<>>
                  /\ RanOf(m, {"onSettled"}) # <<>>
                  /\ rec.ran = RanOf(m, {first}) \o RanOf(m, {"onSettled"})

\* C22: when mutationFn rejects with err and no retry is left, the state of
\* the hook gets status error and error = err, the promise of the call
\* rejects with err, which mutateAsync returns and mutate catches, and the
\* closure handed to defer starts with onError(err).
C22_MutationErrorSurfaced ==
    [][\A m \in Mids :
          (MutationFnReject(m) /\ mutations'[m].pc = "done")
          => LET err == ErrorOf("Error", m)
                 rec == mutations'[m]
             IN  /\ mounted => (/\ mstate'.status = "error"
                                /\ mstate'.isError
                                /\ mstate'.error = err)
                 /\ rec.outcome = "rejected"
                 /\ rec.error = err
                 /\ rec.kind = "mutate" => rec.caught
                 /\ rec.kind = "mutateAsync" => ~rec.caught
                 /\ \E i \in DOMAIN deferred' : deferred'[i] = Callback("mutation", m)
                 /\ "onError" \in rec.options.handlers
                    => (rec.todo # <<>> /\ Head(rec.todo).h = "onError"
                        /\ Head(rec.todo).error = err)]_vars

\* A call by mutate and a call by mutateAsync have failed, their onError
\* handlers have run and the state of the hook shows the error.
C22_Witness ==
    /\ mstate.status = "error"
    /\ \E a, b \in Mids :
          /\ mutations[a].kind = "mutate"
          /\ mutations[b].kind = "mutateAsync"
          /\ \A m \in {a, b} :
                /\ mutations[m].outcome = "rejected"
                /\ mutations[m].hpc = "done"
                /\ RanOf(m, {"onError"}) # <<>>

\* The number of retries the retry option of a mutation allows.
MutationRetryLimit(retry) ==
    IF retry.kind = "omitted" THEN 0
    ELSE IF retry.kind = "boolean" THEN (IF retry.n = 1 THEN 3 ELSE 0)
    ELSE retry.n

\* C23: a mutation whose mutationFn keeps rejecting invokes it exactly once
\* when retry is omitted and exactly n+1 times for retry = n, and the state
\* does not show the error of the call before its last invocation has failed.
C23_MutationRetryCount ==
    \A m \in Mids :
        LET n == MutationRetryLimit(mutations[m].options.retry)
        IN  /\ mutations[m].calls <= n + 1
            /\ (mutations[m].outcome = "rejected" /\ mutations[m].error.name = "Error")
               => mutations[m].calls = n + 1
            /\ (mstate.status = "error" /\ mstate.error.id = m)
               => (mutations[m].outcome = "rejected" /\ mutations[m].calls = n + 1)

\* A call without a retry option has failed after one invocation of
\* mutationFn.
C23_Witness ==
    \E m \in Mids :
        /\ mutations[m].options.retry = RetryOmitted
        /\ mutations[m].outcome = "rejected"
        /\ mutations[m].calls = 1
        /\ mstate.status = "error"

\* C24: every call that is past onMutate has invoked mutationFn itself, has
\* run onMutate itself when one is given, and its handlers get its own
\* variables and context; starting a call and a step of a call leave the
\* records of the other calls as they are.
C24_MutationsIndependent ==
    [][/\ \A m \in DOMAIN mutations' :
             LET rec == mutations'[m]
             IN  /\ rec.pc \notin {"start", "onMutate"} => rec.calls >= 1
                 /\ rec.options.onMutate # "none" => rec.onMutateCalls = 1
                 /\ \A i \in DOMAIN rec.ran :
                       /\ rec.ran[i].variables = rec.variables
                       /\ rec.ran[i].context = rec.context
       /\ Len(mutations') > Len(mutations)
          => \A m \in Mids : mutations'[m] = mutations[m]
       /\ \A m \in Mids :
             mutations'[m].pc # mutations[m].pc
             => \A m2 \in Mids \ {m} : mutations'[m2] = mutations[m2]]_vars

\* Two calls with different variables are awaiting their own mutationFn.
C24_Witness ==
    \E a, b \in Mids :
        /\ mutations[a].variables # mutations[b].variables
        /\ mutations[a].pc = "awaitFn" /\ mutations[a].calls = 1
        /\ mutations[b].pc = "awaitFn" /\ mutations[b].calls = 1

\* min(1000 * 2^attempt, 30000), written out.
DefaultBackoff(attempt) ==
    IF attempt < 5 THEN <<1000, 2000, 4000, 8000, 16000>>[attempt + 1] ELSE 30000

\* The delay the claim gives for a retryDelay option.
ExpectedDelay(rd, attempt) ==
    IF rd.kind = "omitted" THEN DefaultBackoff(attempt)
    ELSE IF rd.kind = "number" THEN rd.n
    ELSE rd.n * (attempt + 1)

\* C25: the delay a fetch or a mutation waits before retrying after attempt
\* number a is min(1000 * 2^a, 30000) when retryDelay is omitted, and the
\* number or the function's value when retryDelay is given.
C25_Backoff ==
    /\ \A f \in Fids :
          fetches[f].pc = "backoff"
          => fetches[f].delay = ExpectedDelay(fetches[f].options.retryDelay, fetches[f].attempt)
    /\ \A m \in Mids :
          mutations[m].pc = "backoff"
          => mutations[m].delay
                = ExpectedDelay(mutations[m].options.retryDelay, mutations[m].attempt)

\* A fetch with the default backoff waits 30000 ms after its sixth failure
\* while a mutation with the default backoff waits 16000 ms after its fifth.
C25_Witness ==
    /\ \E f \in Fids :
          /\ fetches[f].options.retryDelay = RetryDelayOmitted
          /\ fetches[f].pc = "backoff" /\ fetches[f].attempt = 5 /\ fetches[f].delay = 30000
    /\ \E m \in Mids :
          /\ mutations[m].options.retryDelay = RetryDelayOmitted
          /\ mutations[m].pc = "backoff" /\ mutations[m].attempt = 4
          /\ mutations[m].delay = 16000

\* What the order-preserving JSON text of a key is made of: whether it is a
\* string or an array, and its parts in order.
Serialization(k) == <<k.kind, k.parts>>

SameSerialization(k1, k2) == Serialization(k1) = Serialization(k2)

\* The entry the store holds for key k (NoEntry when it holds none).
Stored(k) == cache[getQueryKey(k)]

StoredNext(k) == cache'[getQueryKey(k)]

\* Two keys index the same slot of the store exactly when their
\* serializations are equal, and two occupied slots hold different entries.
KeysAddress ==
    \A k1 \in cfg.keyArgs, k2 \in cfg.keyArgs :
        /\ SameSerialization(k1, k2) <=> getQueryKey(k1) = getQueryKey(k2)
        /\ (~SameSerialization(k1, k2) /\ Stored(k1) # NoEntry) => Stored(k1) # Stored(k2)
        /\ SameSerialization(k1, k2)
           => getQueryDataValue(Cur, k1) = getQueryDataValue(Cur, k2)

\* The keys of the scenario that serialize as k does.
SameAs(k) == {k2 \in cfg.keys : SameSerialization(k, k2)}

\* An operation given a key acts on the entry every key of the same
\* serialization addresses.
KeysSameEntry ==
    /\ \A o \in cfg.options :
          /\ FetchQuery(o)
             => \A k2 \in SameAs(o.queryKey) :
                   fetches'[Len(fetches')].entry = StoredNext(k2)
          /\ SubscribeToQuery(o)
             => \A k2 \in SameAs(o.queryKey) :
                   /\ observers'[Len(observers')].entry = StoredNext(k2)
                   /\ Len(observers') \in entries'[StoredNext(k2)].observers
    /\ \A k \in cfg.keys :
          /\ \A x \in SetValues :
                SetQueryData(k, x)
                => \A k2 \in SameAs(k) :
                      /\ getQueryDataValue(CurNext, k2) = SetData(x)
                      /\ (Stored(k2) # NoEntry => StoredNext(k2) = Stored(k2))
          /\ InvalidateQueries(k)
             => \A k2 \in SameAs(k) :
                   Stored(k2) # NoEntry => entries'[Stored(k2)].state.isInvalidated
          /\ RemoveQueries(k) => \A k2 \in SameAs(k) : StoredNext(k2) = NoEntry

\* C26: two query keys address the same cache entry if and only if their
\* serializations are equal, whatever objects they are, and fetchQuery,
\* subscribeToQuery, setQueryData, getQueryData, invalidateQueries and
\* removeQueries given two keys of equal serialization act on the same entry.
C26_StructuralKeys == []KeysAddress /\ [][KeysSameEntry]_vars

\* A fetch issued with one array and an observer subscribed with another
\* array of the same contents are on the one entry the store holds for both.
C26_Witness ==
    \E f \in Fids, ob \in Obs :
        /\ fetches[f].options.queryKey = KPosts
        /\ observers[ob].options.queryKey = KPostsCopy
        /\ fetches[f].entry = observers[ob].entry
        /\ Stored(KPosts) = fetches[f].entry
        /\ ob \in entries[Stored(KPostsCopy)].observers

\* C27: when a fetch settles with an error on an entry without observers, a
\* gcTime timer is armed for the entry (as it is after a success).
C27_GcTimerAfterError ==
    [][\A f \in Fids, name \in ErrorNames :
          (/\ QueryFnReject(f, name)
           /\ fetches'[f].outcome = "rejected"
           /\ gcTimeOf(fetches[f].options) > 0
           /\ entries[fetches[f].entry].observers = {})
          => LET t == entries'[fetches[f].entry].gcTimeout
             IN  /\ t # NoTimer
                 /\ timers'[t].armed
                 /\ timers'[t].entry = fetches[f].entry]_vars

\* The armed timers of the given kinds that were set for entry e.
ArmedTimers(e, kinds) ==
    {t \in Tids : timers[t].armed /\ timers[t].entry = e /\ timers[t].kind \in kinds}

\* C28: an entry has at most one armed GC timer and at most one armed
\* background-refetch timer.
C28_OneTimerPerKind ==
    \A e \in Eids :
        /\ Cardinality(ArmedTimers(e, {"gcFetch", "gcUnsub"})) <= 1
        /\ Cardinality(ArmedTimers(e, {"interval"})) <= 1

\* Fetch f resumes from its await in the step.
Resumes(f) ==
    \/ QueryFnResolve(f)
    \/ \E name \in ErrorNames : QueryFnReject(f, name)
    \/ BackoffElapsed(f)

\* C29: a fetch that resumes after an await while its entry is no longer the
\* one the store holds for its key leaves that entry's state as it is and
\* arms no timer for it.
C29_NoStaleEntryWrite ==
    [][\A f \in Fids :
          (Resumes(f) /\ cache[KeyOf(f)] # fetches[f].entry)
          => /\ entries'[fetches[f].entry].state = entries[fetches[f].entry].state
             /\ \A t \in DOMAIN timers' \ DOMAIN timers :
                   timers'[t].entry # fetches[f].entry]_vars

PrevState(e) == IF e \in Eids THEN entries[e].state ELSE InitialState

\* Result r is the projection of state st under options o.
IsProjection(r, st, o) ==
    /\ r.isPending = (st.status = "pending")
    /\ r.isSuccess = (st.status = "success")
    /\ r.isError = (st.status = "error")
    /\ Cardinality({x \in {"p", "s", "e"} :
                       \/ x = "p" /\ r.isPending
                       \/ x = "s" /\ r.isSuccess
                       \/ x = "e" /\ r.isError}) = 1
    /\ r.isFetching = (st.fetchStatus = "fetching")
    /\ r.isLoading = (r.isPending /\ r.isFetching)
    /\ r.isRefetching = (r.isFetching /\ ~r.isPending)
    /\ r.data = IF o.select /\ st.data # Undefined THEN Selected(st.data) ELSE st.data

QueueNames(q) == {<<q[i].cb, q[i].fid>> : i \in DOMAIN q}

C33_ExactlyOnce ==
    /\ \A d \in called : d.run = 1
    /\ ~isPending => deferred = <<>>

\* C34: an observer that has subscribed and not unsubscribed is in the
\* observer set of the entry the store holds for its key, whenever the store
\* holds one.
C34_LiveSubscribersAttached ==
    \A ob \in Obs :
        LET s == getQueryKey(observers[ob].options.queryKey)
        IN  (observers[ob].active /\ cache[s] # NoEntry)
            => ob \in entries[cache[s]].observers

\* C35: exactly one of isIdle, isPending, isSuccess, isError is true in the
\* mutation state, and it is the one status names.
C35_MutationFlagsAgree ==
    /\ mstate.isIdle = (mstate.status = "idle")
    /\ mstate.isPending = (mstate.status = "pending")
    /\ mstate.isSuccess = (mstate.status = "success")
    /\ mstate.isError = (mstate.status = "error")
    /\ mstate.status \in {"idle", "pending", "success", "error"}

\* C36: when the fetch that refetch() started succeeds, the promise of
\* refetch() resolves with a result of status success, fetchStatus idle and
\* the fetched value as data.
C36_RefetchResultCurrent ==
    [][\A f \in Fids :
          (QueryFnResolve(f) /\ fetches[f].origin = "refetch" /\ ~fetches[f].aborted)
          => /\ fetches'[f].result # NoResult
             /\ fetches'[f].result.state.status = "success"
             /\ fetches'[f].result.state.fetchStatus = "idle"
             /\ fetches'[f].result.data = FetchData(f)]_vars

\* Entry e and what belongs to it are as they were before the step.
EntryUntouched(e) ==
    /\ entries'[e] = entries[e]
    /\ \A ob \in entries[e].observers : observers'[ob].last = observers[ob].last
    /\ \A t \in Tids : timers[t].entry = e => timers'[t] = timers[t]
    /\ \A f \in Fids : fetches[f].entry = e => fetches'[f] = fetches[f]

\* C37: removeQueries(k) and invalidateQueries(k) called with a key, the
\* empty string included, leave every entry stored under another key in the
\* store and untouched.
C37_KeyedOperationsFrame ==
    [][\A k \in cfg.keyArgs \ {NoKey} :
          (RemoveQueries(k) \/ InvalidateQueries(k))
          => \A s \in SerKeys \ {getQueryKey(k)} :
                /\ cache'[s] = cache[s]
                /\ cache[s] # NoEntry => EntryUntouched(cache[s])]_vars

\* The calls of handler cb of fetch f that have been made.
CallsOf(cb, f) == {d \in called : d.cb = cb /\ d.fid = f}

\* C38: the onSettled of a fetchQuery call that has ended is queued behind
\* the onSuccess or onError of the same call, is never called twice, and has
\* been called once when the queue has been drained and nothing is scheduled.
C38_OnSettledOnce ==
    \A f \in Fids :
        (fetches[f].pc = "done" /\ fetches[f].options.onSettled)
        => /\ Cardinality(CallsOf("onSettled", f)) <= 1
           /\ \A i \in DOMAIN deferred, j \in DOMAIN deferred :
                 (/\ deferred[i].fid = f /\ deferred[j].fid = f
                  /\ deferred[i].cb \in {"onSuccess", "onError"}
                  /\ deferred[j].cb = "onSettled")
                 => i < j
           /\ ~isPending => Cardinality(CallsOf("onSettled", f)) = 1

\* The onMutate of call m throws or rejects.
OnMutateFails(rec) == rec.options.onMutate \in {"throws", "rejects"}

\* Call m was ended by its onMutate: mutationFn was not invoked, no handler
\* ran or is queued, and the promise rejected with the onMutate error, which
\* mutate swallowed and mutateAsync handed to its caller.
EndedByOnMutate(m) ==
    /\ mutations[m].calls = 0
    /\ mutations[m].ran = <<>>
    /\ mutations[m].hpc = "none"
    /\ \A i \in DOMAIN deferred : ~(deferred[i].cb = "mutation" /\ deferred[i].fid = m)
    /\ mutations[m].pc = "done"
       => /\ mutations[m].outcome = "rejected"
          /\ mutations[m].error = ErrorOf("OnMutateError", m)
          /\ mutations[m].caught = (mutations[m].kind = "mutate")

\* A step in which a call whose onMutate fails starts or ends leaves the
\* mutation state as it was.
OnMutateFailureFrame ==
    \A m \in DOMAIN mutations' :
        (/\ OnMutateFails(mutations'[m])
         /\ (m \notin Mids \/ mutations'[m] # mutations[m]))
        => mstate' = mstate

\* C39: when onMutate throws or rejects, mutationFn is never invoked for the
\* call, the mutation state stays as it was, no handler is invoked,
\* mutateAsync rejects with the onMutate error and mutate swallows it.
C39_OnMutateFailure ==
    /\ [](\A m \in Mids : OnMutateFails(mutations[m]) => EndedByOnMutate(m))
    /\ [][OnMutateFailureFrame]_vars

\* After a successful call, a call by mutateAsync whose onMutate rejected has
\* ended: the state still shows the success of the first.
C39_Witness ==
    \E m \in Mids :
        /\ mutations[m].options.onMutate = "rejects"
        /\ mutations[m].kind = "mutateAsync"
        /\ mutations[m].pc = "done" /\ mutations[m].outcome = "rejected"
        /\ mutations[m].onMutateCalls = 1
        /\ mstate.status = "success"

\* C40: isInvalidated is sticky.  An entry whose state has isInvalidated set
\* keeps it set through every later step (fetch success, fetch failure and
\* setQueryData included); an entry created by a step starts with the flag
\* clear, and a key whose entry was invalidated shows a clear flag again only
\* through another entry.
C40_InvalidatedSticky ==
    [][/\ \A e \in Eids :
             entries[e].state.isInvalidated => entries'[e].state.isInvalidated
       /\ \A e \in DOMAIN entries' \ Eids : ~entries'[e].state.isInvalidated
       /\ \A s \in SerKeys :
             (/\ cache[s] # NoEntry /\ cache'[s] # NoEntry
              /\ entries[cache[s]].state.isInvalidated
              /\ ~entries'[cache'[s]].state.isInvalidated)
             => cache'[s] # cache[s]]_vars

\* An invalidated entry that has since failed a fetch and holds data written
\* by setQueryData, the flag still set.
C40_Witness ==
    \E e \in Eids :
        /\ entries[e].state.isInvalidated
        /\ entries[e].state.status = "error"
        /\ entries[e].state.failureCount > 0
        /\ entries[e].state.data # Undefined
        /\ entries[e].state.data.src = "set"

====
